---- MODULE Spec2Model ----
(***************************************************************************)
(* State-machine model of usb_bos_webusb_msos20_analyzer.c: the BOS        *)
(* descriptor walk (parse_bos_descriptor), the WebUSB URL decoder          *)
(* (parse_webusb_url_descriptor), the MS OS 2.0 descriptor-set walk        *)
(* (parse_msos20_descriptor) and the UUID formatter (uuid_to_string).      *)
(*                                                                         *)
(* A decode call is a run of the machine: Init is the moment main hands a  *)
(* received buffer to a decoder, each loop iteration of a walk is one      *)
(* step, and the printed report is the sequence `out` of findings.         *)
(* Byte indices are 0-based as in the C source; `reads` collects every     *)
(* index of the buffer the decoder has read.                               *)
(***************************************************************************)
EXTENDS Integers, Sequences, FiniteSets, TLC

VARIABLES
    data,           \* the bytes received from the device (data[0..length-1])
    length,         \* the declared length handed to the decoder
    pc,             \* position of the running decoder
    offset,         \* the walk's cursor
    cap_count,      \* BOS: capabilities consumed
    error_count,    \* the decoder's error counter
    warning_count,  \* the decoder's warning counter
    out,            \* the findings printed so far, in order
    reads,          \* the byte indices read so far
    uuid_str,       \* BOS: the last string written by uuid_to_string
    webusb_vendor_code,         \* main: vendor code for the URL request
    webusb_landing_page_index   \* main: landing page index for the request

vars == <<data, length, pc, offset, cap_count, error_count, warning_count,
          out, reads, uuid_str, webusb_vendor_code, webusb_landing_page_index>>

(***************************************************************************)
(* Program constants.                                                      *)
(***************************************************************************)
MS_OS_20_SET_HEADER_DESCRIPTOR == 0
MS_OS_20_SUBSET_HEADER_CONFIGURATION == 1
MS_OS_20_SUBSET_HEADER_FUNCTION == 2
MS_OS_20_FEATURE_COMPATIBLE_ID == 3
MS_OS_20_FEATURE_REG_PROPERTY == 4
USB_DT_BOS == 15
USB_DT_DEVICE_CAPABILITY == 16
USB_PLAT_DEV_CAP_TYPE == 5
WEBUSB_URL_DESCRIPTOR_TYPE == 3
WEBUSB_URL_SCHEME_HTTP == 0
WEBUSB_URL_SCHEME_HTTPS == 1
WEBUSB_URL_SCHEME_NONE == 255
WEBUSB_UUID_STR == "3408b638-09a9-47a0-8bfd-a0768815b665"
MSOS20_UUID_STR == "d8dd60df-4589-4cc7-9cd2-659d9e648a9f"
\* sizeof(struct usb_plat_dev_cap_descriptor): 4 bytes + UUID[16], packed
PlatCapSize == 20
\* the expected dwWindowsVersion 0x06030000, as <<high word, low word>>
WinVersion81 == <<1539, 0>>

(***************************************************************************)
(* Bounds of the model.                                                    *)
(***************************************************************************)
MaxCaps == 2        \* capability records laid out in a BOS buffer
MaxTrunc == 2       \* bytes a transfer may cut off the end of a BOS or URL buffer
MaxMsosTrunc == 1   \* bytes a transfer may cut off the end of a descriptor set
MaxUrlLen == 3      \* URL bytes behind the 3-byte head of a URL descriptor
MaxRecs == 2        \* records laid out in an MS OS 2.0 descriptor set

(***************************************************************************)
(* Reading the buffer.  main clears its 512-byte buffer before every       *)
(* transfer, so a byte at an index >= length reads as 0.                   *)
(***************************************************************************)
Byte(i) == IF i >= 0 /\ i < Len(data) THEN data[i + 1] ELSE 0

Bytes(first, n) == [k \in 1..n |-> Byte(first + k - 1)]

LE16(lo) == Byte(lo) + 256 * Byte(lo + 1)

\* a uint32_t assembled from four bytes, kept as <<high word, low word>>
LE32(lo) == <<LE16(lo + 2), LE16(lo)>>

\* one printed line of the report
Finding(sev, msg, at, str, raw) ==
    [sev |-> sev, msg |-> msg, at |-> at, str |-> str, raw |-> raw]

(***************************************************************************)
(* uuid_to_string: sprintf of sixteen "%02x" conversions.                  *)
(***************************************************************************)
HexDigit == <<"0", "1", "2", "3", "4", "5", "6", "7",
              "8", "9", "a", "b", "c", "d", "e", "f">>

\* printf("%02x", b) for a uint8_t b
Hex02x(b) == HexDigit[(b \div 16) + 1] \o HexDigit[(b % 16) + 1]

uuid_to_string_swapped(uuid) ==
    Hex02x(uuid[4]) \o Hex02x(uuid[3]) \o Hex02x(uuid[2]) \o Hex02x(uuid[1])
    \o "-" \o Hex02x(uuid[6]) \o Hex02x(uuid[5])
    \o "-" \o Hex02x(uuid[8]) \o Hex02x(uuid[7])
    \o "-" \o Hex02x(uuid[10]) \o Hex02x(uuid[9])
    \o "-" \o Hex02x(uuid[11]) \o Hex02x(uuid[12]) \o Hex02x(uuid[13])
    \o Hex02x(uuid[14]) \o Hex02x(uuid[15]) \o Hex02x(uuid[16])

\* uuid is the 16-byte field; uuid[k + 1] here is uuid[k] in the C source
uuid_to_string(uuid) ==
    Hex02x(uuid[4]) \o Hex02x(uuid[3]) \o Hex02x(uuid[2]) \o Hex02x(uuid[1])
    \o "-" \o Hex02x(uuid[6]) \o Hex02x(uuid[5])
    \o "-" \o Hex02x(uuid[8]) \o Hex02x(uuid[7])
    \o "-" \o Hex02x(uuid[9]) \o Hex02x(uuid[10])
    \o "-" \o Hex02x(uuid[11]) \o Hex02x(uuid[12]) \o Hex02x(uuid[13])
    \o Hex02x(uuid[14]) \o Hex02x(uuid[15]) \o Hex02x(uuid[16])

\* tolower on one character, as strcasecmp applies it
ToLower(c) ==
    CASE c = "A" -> "a" [] c = "B" -> "b" [] c = "C" -> "c"
      [] c = "D" -> "d" [] c = "E" -> "e" [] c = "F" -> "f"
      [] OTHER -> c

\* strcasecmp(a, b) == 0
StrCaseEq(a, b) ==
    /\ Len(a) = Len(b)
    /\ \A k \in 1..Len(a) : ToLower(SubSeq(a, k, k)) = ToLower(SubSeq(b, k, k))

(***************************************************************************)
(* parse_bos_descriptor.                                                   *)
(***************************************************************************)
\* lines 63-97: the length floor, the header report and its two checks
BosHeader ==
    /\ pc = "bos_start"
    /\ IF length < 5
       THEN /\ out' = Append(out, Finding("ERROR", "BOS descriptor too short",
                                          0, "", <<length>>))
            /\ pc' = "done"
            /\ UNCHANGED <<offset, cap_count, error_count, warning_count, reads>>
       ELSE LET bLength == Byte(0)
                bDescriptorType == Byte(1)
                wTotalLength == LE16(2)
                bNumDeviceCaps == Byte(4)
                typeBad == bDescriptorType # USB_DT_BOS
                totalBad == wTotalLength # length
            IN  /\ reads' = reads \cup (0..4)
                /\ out' = out
                     \o << Finding("INFO", "BOS Header", 0, "",
                                   <<bLength, bDescriptorType, wTotalLength,
                                     bNumDeviceCaps>>) >>
                     \o (IF typeBad
                         THEN << Finding("ERROR", "Invalid BOS descriptor type",
                                         0, "", <<>>) >>
                         ELSE <<>>)
                     \o (IF totalBad
                         THEN << Finding("WARNING", "BOS total length mismatch",
                                         0, "", <<wTotalLength, length>>) >>
                         ELSE <<>>)
                /\ error_count' = error_count + (IF typeBad THEN 1 ELSE 0)
                /\ warning_count' = warning_count + (IF totalBad THEN 1 ELSE 0)
                /\ offset' = bLength
                /\ cap_count' = 0
                /\ pc' = "bos_loop"
    /\ UNCHANGED <<webusb_vendor_code, webusb_landing_page_index>>
    /\ UNCHANGED <<data, length, uuid_str>>

BosLoopCond_no_count == offset < length

\* line 99: the loop condition of the capability walk
BosLoopCond == offset < length /\ cap_count < Byte(4)

BosTruncated_off_by_one(off) == off + 3 >= length

\* line 100: fewer than 3 bytes remain at the cursor
BosTruncated(off) == off + 3 > length

\* line 116: the record is decoded as a platform capability
IsPlatformCap(off) ==
    Byte(off + 2) = USB_PLAT_DEV_CAP_TYPE /\ off + PlatCapSize <= length

WebUsbVendorCode_wrong_byte(off) == Byte(off + PlatCapSize + 3)

\* line 130: vendor_code of the WebUSB payload
WebUsbVendorCode(off) == Byte(off + PlatCapSize + 2)

\* lines 127-143: the WebUSB payload of the capability at off
WebUsbPayload(off, cap_length) ==
    IF cap_length >= PlatCapSize + 4
    THEN LET bcd_version == LE16(off + PlatCapSize)
             vendor_code == WebUsbVendorCode(off)
             landing_page == Byte(off + PlatCapSize + 3)
         IN  [reads |-> (off + PlatCapSize)..(off + PlatCapSize + 3),
              out |-> << Finding("INFO", "WebUSB Data", off, "",
                                 <<bcd_version, vendor_code, landing_page>>) >>
                      \o (IF vendor_code = 0
                          THEN << Finding("WARNING", "WebUSB vendor code is 0",
                                          off, "", <<>>) >>
                          ELSE <<>>),
              warnings |-> IF vendor_code = 0 THEN 1 ELSE 0]
    ELSE [reads |-> {}, out |-> <<>>, warnings |-> 0]

\* lines 146-166: the MS OS 2.0 payload of the capability at off
MsOsPayload(off, cap_length) ==
    IF cap_length >= PlatCapSize + 8
    THEN LET win_version == LE32(off + PlatCapSize)
             desc_set_len == LE16(off + PlatCapSize + 4)
             vendor_code == Byte(off + PlatCapSize + 6)
             alt_enum == Byte(off + PlatCapSize + 7)
         IN  [reads |-> (off + PlatCapSize)..(off + PlatCapSize + 7),
              out |-> << Finding("INFO", "MS OS 2.0 Data", off, "",
                                 win_version \o <<desc_set_len, vendor_code,
                                                  alt_enum>>) >>
                      \o (IF win_version # WinVersion81
                          THEN << Finding("WARNING", "Unusual Windows version",
                                          off, "", <<>>) >>
                          ELSE <<>>),
              warnings |-> IF win_version # WinVersion81 THEN 1 ELSE 0]
    ELSE [reads |-> {}, out |-> <<>>, warnings |-> 0]

\* lines 116-172: what one capability record adds to the report
CapabilityBody(off, cap_length) ==
    IF IsPlatformCap(off)
    THEN LET str == uuid_to_string(Bytes(off + 4, 16))
             head == [reads |-> (off + 3)..(off + 19),
                      out |-> << Finding("INFO", "Platform Capability", off,
                                         str, <<Byte(off + 3)>>) >>,
                      warnings |-> 0]
             tail == IF StrCaseEq(str, WEBUSB_UUID_STR)
                     THEN LET p == WebUsbPayload(off, cap_length)
                          IN  [p EXCEPT !.out =
                                 << Finding("INFO", "WebUSB Platform Capability",
                                            off, "", <<>>) >> \o p.out]
                     ELSE IF StrCaseEq(str, MSOS20_UUID_STR)
                     THEN LET p == MsOsPayload(off, cap_length)
                          IN  [p EXCEPT !.out =
                                 << Finding("INFO", "MS OS 2.0 Platform Capability",
                                            off, "", <<>>) >> \o p.out]
                     ELSE [reads |-> {},
                           out |-> << Finding("INFO", "Unknown Platform Capability",
                                              off, "", <<>>) >>,
                           warnings |-> 0]
         IN  [reads |-> head.reads \cup tail.reads,
              out |-> head.out \o tail.out,
              warnings |-> tail.warnings,
              uuid |-> str]
    ELSE [reads |-> {},
          out |-> << Finding("INFO", "Non-Platform Capability", off, "",
                             <<Byte(off + 2)>>) >>,
          warnings |-> 0,
          uuid |-> uuid_str]

\* lines 99-177: one iteration of the capability walk
BosCapability ==
    /\ pc = "bos_loop"
    /\ BosLoopCond
    /\ IF BosTruncated(offset)
       THEN /\ out' = Append(out, Finding("ERROR", "Truncated device capability",
                                          offset, "", <<>>))
            /\ error_count' = error_count + 1
            /\ pc' = "bos_summary"
            /\ UNCHANGED <<offset, cap_count, warning_count, reads, uuid_str>>
       ELSE LET cap_length == Byte(offset)
                cap_type == Byte(offset + 1)
                cap_capability_type == Byte(offset + 2)
                body == CapabilityBody(offset, cap_length)
            IN  /\ reads' = reads \cup (offset..(offset + 2)) \cup body.reads
                /\ out' = out
                     \o << Finding("INFO", "Device Capability", offset, "",
                                   <<cap_count, cap_length, cap_type,
                                     cap_capability_type>>) >>
                     \o body.out
                /\ warning_count' = warning_count + body.warnings
                /\ uuid_str' = body.uuid
                /\ offset' = offset + cap_length
                /\ cap_count' = cap_count + 1
                /\ pc' = "bos_loop"
                /\ UNCHANGED error_count
    /\ UNCHANGED <<webusb_vendor_code, webusb_landing_page_index>>
    /\ UNCHANGED <<data, length>>

\* lines 179-190: the summary, after the loop ended or was left by break
BosSummary ==
    /\ \/ pc = "bos_summary"
       \/ pc = "bos_loop" /\ ~BosLoopCond
    /\ out' = Append(out, Finding("SUMMARY",
                 IF error_count = 0 /\ warning_count = 0 THEN "well-formed"
                 ELSE IF error_count = 0 THEN "valid with warnings"
                 ELSE "has errors",
                 offset, "", <<cap_count, error_count, warning_count>>))
    /\ pc' = "done"
    /\ UNCHANGED <<webusb_vendor_code, webusb_landing_page_index>>
    /\ UNCHANGED <<data, length, offset, cap_count, error_count, warning_count,
                   reads, uuid_str>>

(***************************************************************************)
(* The BOS buffers a device may answer with: a 5-byte header followed by   *)
(* up to MaxCaps capability records, of which the transfer delivered all   *)
(* but the last 0..MaxTrunc bytes.                                         *)
(***************************************************************************)
WebUsbUuid == <<56, 182, 8, 52, 169, 9, 160, 71, 139, 253, 160, 118, 136, 21, 182, 101>>
MsOsUuid == <<223, 96, 221, 216, 137, 69, 199, 76, 156, 210, 101, 157, 158, 100, 138, 159>>
OtherUuid == <<0, 1, 2, 3, 4, 5, 6, 7, 8, 9, 10, 11, 12, 13, 14, 171>>

PlatCap(len, uuid, payload) ==
    <<len, USB_DT_DEVICE_CAPABILITY, USB_PLAT_DEV_CAP_TYPE, 0>> \o uuid \o payload

CapMenu ==
    { <<3, 16, 2>>, <<0, 16, 2>>, <<2, 16, 1>>, <<3, 16, 5>>,
      PlatCap(24, WebUsbUuid, <<0, 1, 0, 1>>),
      PlatCap(24, WebUsbUuid, <<0, 1, 1, 1>>),
      PlatCap(24, WebUsbUuid, <<0, 1, 1, 0>>),
      PlatCap(24, WebUsbUuid, <<>>),
      PlatCap(28, MsOsUuid, <<0, 0, 3, 6, 10, 0, 2, 0>>),
      PlatCap(28, MsOsUuid, <<0, 0, 0, 10, 10, 0, 2, 0>>),
      PlatCap(20, OtherUuid, <<>>) }

RECURSIVE BosBodies(_)
BosBodies(n) ==
    IF n = 0 THEN { <<>> }
    ELSE BosBodies(n - 1)
         \cup { b \o r : b \in BosBodies(n - 1), r \in CapMenu }

\* <<bLength, bDescriptorType, wTotalLength - length, bNumDeviceCaps>>
BosHeaderKinds ==
    { <<5, 15, 0, nc>> : nc \in 0..3 }
    \cup { <<h[1], h[2], h[3], nc>> :
             h \in { <<5, 15, 1>>, <<5, 16, 0>>, <<0, 15, 0>>, <<7, 15, 0>> },
             nc \in 1..2 }
    \cup { <<0, 16, 1, 1>> }

BosBuffers ==
    { LET len == 5 + Len(body) - t
      IN  SubSeq(<<h[1], h[2], (len + h[3]) % 256, (len + h[3]) \div 256, h[4]>>
                 \o body, 1, len) :
        body \in BosBodies(MaxCaps), t \in 0..MaxTrunc, h \in BosHeaderKinds }

InitBos ==
    /\ data \in { b \in BosBuffers : Len(b) >= 1 }
    /\ length = Len(data)
    /\ pc = "bos_start"
    /\ offset = 0
    /\ cap_count = 0
    /\ error_count = 0
    /\ warning_count = 0
    /\ out = <<>>
    /\ reads = {}
    /\ uuid_str = ""
    /\ webusb_vendor_code = 0
    /\ webusb_landing_page_index = 0

NextBos == BosHeader \/ BosCapability \/ BosSummary

SpecBos == InitBos /\ [][NextBos]_vars

(***************************************************************************)
(* main, after parse_bos_descriptor returned: the second scan of the same  *)
(* buffer for the parameters of the WebUSB URL request.                    *)
(***************************************************************************)
\* lines 586-606: the pair the scan leaves in (webusb_vendor_code,
\* webusb_landing_page_index), from capability number cap at bos_offset
RECURSIVE ExtractWebUsb(_, _)
ExtractWebUsb(cap, bos_offset) ==
    IF ~(cap < Byte(4) /\ bos_offset < length) THEN <<0, 0>>
    ELSE IF bos_offset + 3 > length THEN <<0, 0>>
    ELSE LET cap_length == Byte(bos_offset)
             cap_capability_type == Byte(bos_offset + 2)
         IN  IF /\ cap_capability_type = USB_PLAT_DEV_CAP_TYPE
                /\ bos_offset + PlatCapSize <= length
                /\ StrCaseEq(uuid_to_string(Bytes(bos_offset + 4, 16)),
                             WEBUSB_UUID_STR)
                /\ cap_length >= PlatCapSize + 4
             THEN << Byte(bos_offset + PlatCapSize + 2),
                     Byte(bos_offset + PlatCapSize + 3) >>
             ELSE ExtractWebUsb(cap + 1, bos_offset + cap_length)

\* lines 583-609: the scan from the fixed offset 5 and the decision to
\* request the URL descriptor
MainExtractWebUsb ==
    /\ pc = "done"
    /\ LET found == ExtractWebUsb(0, 5)
       IN  /\ webusb_vendor_code' = found[1]
           /\ webusb_landing_page_index' = found[2]
           /\ pc' = IF found[1] # 0 /\ found[2] # 0
                    THEN "fetch_webusb_url" ELSE "skip_webusb_url"
    /\ UNCHANGED <<data, length, offset, cap_count, error_count, warning_count,
                   out, reads, uuid_str>>

NextMain == NextBos \/ MainExtractWebUsb

SpecMain == InitBos /\ [][NextMain]_vars

(***************************************************************************)
(* Claims about parse_bos_descriptor and uuid_to_string, under SpecBos.    *)
(***************************************************************************)
BosDone == pc = "done"

\* a step of the walk that decodes the record at the cursor
AtBosRecord == pc = "bos_loop" /\ BosLoopCond /\ ~BosTruncated(offset)

Warnings(o) == SelectSeq(o, LAMBDA f : f.sev = "WARNING")
Errors(o) == SelectSeq(o, LAMBDA f : f.sev = "ERROR")
CapabilityFindings(o) ==
    SelectSeq(o, LAMBDA f : f.sev = "INFO" /\ f.msg # "BOS Header")

\* C1: during a BOS decode with length >= 5 every byte index read lies in
\* [0, length); the payload bytes of a platform capability are read only
\* when they are inside the declared length.
C1_ReadsInsideLength ==
    length >= 5 => \A i \in reads : 0 <= i /\ i < length

\* C2: a capability record (behind the header) whose length byte is 0 adds
\* one error and ends the walk at that record.
C2_ZeroLengthStopsWalk ==
    [][ (AtBosRecord /\ offset >= 5 /\ Byte(offset) = 0)
        => (error_count' = error_count + 1 /\ pc' = "bos_summary") ]_vars

\* the records the walk is to consume, starting at off with n left: each has
\* a non-zero length byte and ends inside the buffer
RECURSIVE RecordsFit(_, _)
RecordsFit(off, n) ==
    IF off >= length \/ n = 0 THEN TRUE
    ELSE /\ Byte(off) # 0
         /\ off + Byte(off) <= length
         /\ RecordsFit(off + Byte(off), n - 1)

\* as RecordsFit, and the 3-byte head of each record is inside the buffer too
RECURSIVE RecordsFitWithHead(_, _)
RecordsFitWithHead(off, n) ==
    IF off >= length \/ n = 0 THEN TRUE
    ELSE /\ Byte(off) # 0
         /\ off + Byte(off) <= length
         /\ off + 3 <= length
         /\ RecordsFitWithHead(off + Byte(off), n - 1)

ValidBosHeader ==
    length >= 5 /\ Byte(1) = USB_DT_BOS /\ LE16(2) = length

\* C3 as stated: a header with type 0x0F and totalLength == length, every
\* capability record non-zero in length and fitting the buffer: no error.
C3_Original ==
    (BosDone /\ ValidBosHeader /\ RecordsFit(Byte(0), Byte(4)))
        => error_count = 0

\* C3 amended: the same, when moreover the 3-byte head (length, type,
\* capability type) of every capability record lies inside the buffer.
C3_NoErrorWhenRecordsFit ==
    (BosDone /\ ValidBosHeader /\ RecordsFitWithHead(Byte(0), Byte(4)))
        => error_count = 0

C3_Witness ==
    /\ BosDone /\ ValidBosHeader /\ RecordsFitWithHead(Byte(0), Byte(4))
    /\ cap_count = 2 /\ offset = length /\ Byte(0) = 7

\* C4: for length < 5 the decode ends with error count 1, has read no byte
\* and has emitted no capability finding.
C4_ShortBufferOneError ==
    (BosDone /\ length < 5)
        => /\ error_count = 1
           /\ reads = {}
           /\ CapabilityFindings(out) = <<>>

\* the buffer is a well-formed header followed by one WebUSB platform
\* capability with a 4-byte payload whose vendor code is 0
SoleWebUsbCapVendor0 ==
    /\ length = 5 + PlatCapSize + 4
    /\ Byte(0) = 5 /\ ValidBosHeader /\ Byte(4) = 1
    /\ Byte(5) = PlatCapSize + 4
    /\ Byte(7) = USB_PLAT_DEV_CAP_TYPE
    /\ Bytes(9, 16) = WebUsbUuid
    /\ Byte(5 + PlatCapSize + 2) = 0

\* C5: a buffer whose sole capability is the WebUSB platform capability with
\* a 4-byte payload and vendorCode 0 decodes with zero errors and exactly one
\* warning, the vendor-code warning.
C5_SoleWebUsbVendorCodeZero ==
    (BosDone /\ SoleWebUsbCapVendor0)
        => /\ error_count = 0
           /\ warning_count = 1
           /\ Errors(out) = <<>>
           /\ Len(Warnings(out)) = 1
           /\ Warnings(out)[1].msg = "WebUSB vendor code is 0"

C5_Witness == BosDone /\ SoleWebUsbCapVendor0 /\ cap_count = 1

\* the order in which the claim lists the sixteen bytes (0-based)
UuidByteOrder == <<3, 2, 1, 0, 5, 4, 7, 6, 8, 9, 10, 11, 12, 13, 14, 15>>

LowerHexPair(b) ==
    LET digits == "0123456789abcdef"
    IN  SubSeq(digits, (b \div 16) + 1, (b \div 16) + 1)
        \o SubSeq(digits, (b % 16) + 1, (b % 16) + 1)

\* where in the 8-4-4-4-12 text the k-th hex pair starts (1-based)
PairStart(k) == 2 * (k - 1) + 1 + Cardinality({d \in {4, 6, 8, 10} : d < k})

IsCanonicalText(b, s) ==
    /\ Len(s) = 36
    /\ \A k \in 1..16 :
         SubSeq(s, PairStart(k), PairStart(k) + 1)
           = LowerHexPair(b[UuidByteOrder[k] + 1])
    /\ \A p \in {9, 14, 19, 24} : SubSeq(s, p, p) = "-"

\* C10: the formatter maps b[0..15] to the lowercase hex of b3 b2 b1 b0 -
\* b5 b4 - b7 b6 - b8 b9 - b10..b15, grouped 8-4-4-4-12, whatever the rest
\* of the state is; the WebUSB bytes give 3408b638-09a9-47a0-8bfd-a0768815b665.
C10_UuidCanonicalText ==
    [][ (AtBosRecord /\ IsPlatformCap(offset))
        => /\ IsCanonicalText(Bytes(offset + 4, 16), uuid_str')
           /\ (Bytes(offset + 4, 16) = WebUsbUuid
                 => uuid_str' = "3408b638-09a9-47a0-8bfd-a0768815b665") ]_vars

C10_Witness ==
    /\ uuid_str = "3408b638-09a9-47a0-8bfd-a0768815b665"
    /\ \E f \in {out[k] : k \in 1..Len(out)} :
          f.msg = "Platform Capability" /\ f.str = uuid_str

(***************************************************************************)
(* parse_webusb_url_descriptor.                                            *)
(***************************************************************************)
\* lines 210-228: the switch on bScheme
SchemePrefix(bScheme) ==
    CASE bScheme = WEBUSB_URL_SCHEME_HTTP -> "http://"
      [] bScheme = WEBUSB_URL_SCHEME_HTTPS -> "https://"
      [] bScheme = WEBUSB_URL_SCHEME_NONE -> ""
      [] OTHER -> "unknown://"

UrlEnd_ignores_length(bLength) == bLength

\* line 232: the loop runs while i < length && i < bLength
UrlEnd(bLength) == IF length < bLength THEN length ELSE bLength

\* lines 192-238: the whole decoder
ParseWebusbUrl ==
    /\ pc = "url_start"
    /\ IF length < 3
       THEN /\ out' = Append(out, Finding("ERROR",
                                          "WebUSB URL descriptor too short",
                                          0, "", <<>>))
            /\ UNCHANGED reads
       ELSE LET bLength == Byte(0)
                bDescriptorType == Byte(1)
                bScheme == Byte(2)
                n == IF UrlEnd(bLength) > 3 THEN UrlEnd(bLength) - 3 ELSE 0
            IN  /\ reads' = reads \cup (0..2)
                                  \cup (IF length > 3 THEN 3..(2 + n) ELSE {})
                /\ out' = out
                     \o << Finding("INFO", "URL Header", 0, "",
                                   <<bLength, bDescriptorType, bScheme>>) >>
                     \o (IF length > 3
                         THEN << Finding("INFO", "URL", 0, SchemePrefix(bScheme),
                                         [i \in 1..n |-> Byte(2 + i)]) >>
                         ELSE <<>>)
    /\ pc' = "done"
    /\ UNCHANGED <<webusb_vendor_code, webusb_landing_page_index>>
    /\ UNCHANGED <<data, length, offset, cap_count, error_count, warning_count,
                   uuid_str>>

\* the URL descriptors a device may answer with
RECURSIVE UrlTexts(_)
UrlTexts(n) ==
    IF n = 0 THEN { <<>> }
    ELSE UrlTexts(n - 1)
         \cup { u \o <<c>> : u \in UrlTexts(n - 1), c \in {97, 46} }

UrlBuffers ==
    { SubSeq(<<bl, ty, sc>> \o u, 1, 3 + Len(u) - t) :
        u \in UrlTexts(MaxUrlLen), t \in 0..MaxTrunc,
        bl \in 0..(MaxUrlLen + 4), ty \in {WEBUSB_URL_DESCRIPTOR_TYPE, 0},
        sc \in {0, 1, 2, 255} }

InitUrl ==
    /\ data \in { b \in UrlBuffers : Len(b) >= 1 }
    /\ length = Len(data)
    /\ pc = "url_start"
    /\ offset = 0
    /\ cap_count = 0
    /\ error_count = 0
    /\ warning_count = 0
    /\ out = <<>>
    /\ reads = {}
    /\ uuid_str = ""
    /\ webusb_vendor_code = 0
    /\ webusb_landing_page_index = 0

NextUrl == ParseWebusbUrl

SpecUrl == InitUrl /\ [][NextUrl]_vars

(***************************************************************************)
(* Claims about parse_webusb_url_descriptor, under SpecUrl.                *)
(***************************************************************************)
UrlFindings(o) == SelectSeq(o, LAMBDA f : f.msg = "URL")

\* the scheme table of the claim
ClaimedPrefix(sc) ==
    IF sc = 0 THEN "http://" ELSE IF sc = 1 THEN "https://"
    ELSE IF sc = 255 THEN "" ELSE "unknown://"

\* the raw bytes at indices 3 .. min(bLength, length) - 1, in order
ClaimedUrlBytes ==
    LET m == IF data[1] < length THEN data[1] ELSE length
    IN  IF m <= 3 THEN <<>> ELSE [i \in 1..(m - 3) |-> data[3 + i]]

\* C9: for length > 3 the reported URL is the scheme prefix followed by the
\* raw bytes 3 .. min(bLength, length) - 1; for length == 3 no URL is
\* reported; no byte at an index >= length is read.
C9_UrlIsPrefixPlusBytes ==
    (pc = "done")
        => /\ length > 3 =>
                /\ Len(UrlFindings(out)) = 1
                /\ UrlFindings(out)[1].str = ClaimedPrefix(data[3])
                /\ UrlFindings(out)[1].raw = ClaimedUrlBytes
           /\ length <= 3 => UrlFindings(out) = <<>>
           /\ \A i \in reads : 0 <= i /\ i < length

C9_Witness ==
    /\ pc = "done" /\ length > 4 /\ data[1] > length /\ data[3] = 2
    /\ UrlFindings(out)[1].raw = SubSeq(data, 4, length)
    /\ UrlFindings(out)[1].str = "unknown://"

(***************************************************************************)
(* parse_msos20_descriptor.                                                *)
(***************************************************************************)
NoFindings == [reads |-> {}, out |-> <<>>, errors |-> 0, warnings |-> 0]

ErrorOnly(msg, off) ==
    [reads |-> {}, out |-> << Finding("ERROR", msg, off, "", <<>>) >>,
     errors |-> 1, warnings |-> 0]

\* a warning line, or nothing
WarnIf(cond, msg, off) ==
    IF cond THEN << Finding("WARNING", msg, off, "", <<>>) >> ELSE <<>>

\* an error line, or nothing
ErrIf(cond, msg, off) ==
    IF cond THEN << Finding("ERROR", msg, off, "", <<>>) >> ELSE <<>>

MsosLengthError_no_bound_check(off, wLength) ==
    IF wLength = 0 THEN "Zero length descriptor"
    ELSE IF wLength < 4 THEN "Invalid descriptor length"
    ELSE ""

MsosLengthError_no_minimum(off, wLength) ==
    IF wLength = 0 THEN "Zero length descriptor"
    ELSE IF off + wLength > length THEN "Descriptor extends beyond buffer"
    ELSE ""

\* lines 263-281: the three length validations; "" when the record passes
MsosLengthError(off, wLength) ==
    IF wLength = 0 THEN "Zero length descriptor"
    ELSE IF wLength < 4 THEN "Invalid descriptor length"
    ELSE IF off + wLength > length THEN "Descriptor extends beyond buffer"
    ELSE ""

SetHeaderMisplaced_inverted(off) == off = 0

\* line 303: the Set Header is not the first record
SetHeaderMisplaced(off) == off # 0

\* lines 284-315
SetHeader(off, wLength) ==
    IF wLength < 10
    THEN ErrorOnly("Set Header too short", off)
    ELSE LET dwWindowsVersion == LE32(off + 4)
             wTotalLength == LE16(off + 8)
             w == WarnIf(wTotalLength # length, "Total length mismatch", off)
                  \o WarnIf(SetHeaderMisplaced(off),
                            "Set Header not at beginning", off)
                  \o WarnIf(dwWindowsVersion # WinVersion81,
                            "Unusual Windows version", off)
         IN  [reads |-> (off + 4)..(off + 9),
              out |-> << Finding("INFO", "Set Header", off, "",
                                 <<wLength>> \o dwWindowsVersion
                                 \o <<wTotalLength>>) >> \o w,
              errors |-> 0,
              warnings |-> Len(w)]

\* lines 316-339
ConfigurationSubsetHeader(off, wLength) ==
    IF wLength < 8
    THEN ErrorOnly("Configuration Subset Header too short", off)
    ELSE LET bConfigurationValue == Byte(off + 4)
             bReserved == Byte(off + 5)
             wTotalLength == LE16(off + 6)
             w == WarnIf(bReserved # 0, "Reserved field not zero", off)
             e == ErrIf(off + wTotalLength > length,
                        "Configuration subset extends beyond buffer", off)
         IN  [reads |-> (off + 4)..(off + 7),
              out |-> << Finding("INFO", "Configuration Subset Header", off, "",
                                 <<wLength, bConfigurationValue,
                                   wTotalLength>>) >> \o w \o e,
              errors |-> Len(e),
              warnings |-> Len(w)]

\* lines 340-368
FunctionSubsetHeader(off, wLength) ==
    IF wLength < 8
    THEN ErrorOnly("Function Subset Header too short", off)
    ELSE LET bFirstInterface == Byte(off + 4)
             bReserved == Byte(off + 5)
             wSubsetLength == LE16(off + 6)
             w == WarnIf(bReserved # 0, "Reserved field not zero", off)
             e == ErrIf(off + wSubsetLength > length,
                        "Function subset extends beyond buffer", off)
                  \o ErrIf(wSubsetLength < wLength,
                           "Function subset length smaller than header length",
                           off)
         IN  [reads |-> (off + 4)..(off + 7),
              out |-> << Finding("INFO", "Function Subset Header", off, "",
                                 <<wLength, bFirstInterface,
                                   wSubsetLength>>) >> \o w \o e,
              errors |-> Len(e),
              warnings |-> Len(w)]

\* printf("%.8s", &data[at]): the bytes before the first NUL, at most 8
RECURSIVE Printf8s(_, _)
Printf8s(at, n) ==
    IF n = 0 \/ Byte(at) = 0 THEN <<>>
    ELSE <<Byte(at)>> \o Printf8s(at + 1, n - 1)

\* the indices printf("%.8s", &data[at]) reads
Printf8sReads(at) ==
    LET k == Len(Printf8s(at, 8))
    IN  at..(at + (IF k < 8 THEN k ELSE 7))

\* strncmp((char*)&data[at], "WINUSB", 6) == 0
IsWinUsb(at) == Bytes(at, 6) = <<87, 73, 78, 85, 83, 66>>

\* lines 369-391
CompatibleIdFeature(off, wLength) ==
    IF wLength < 20
    THEN ErrorOnly("Compatible ID Feature too short", off)
    ELSE LET w == WarnIf(~IsWinUsb(off + 4),
                         "Compatible ID is not 'WINUSB'", off)
                  \o WarnIf(Byte(off + 4 + 6) # 0 \/ Byte(off + 4 + 7) # 0,
                            "Compatible ID not properly null-terminated", off)
         IN  [reads |-> Printf8sReads(off + 4) \cup Printf8sReads(off + 12)
                        \cup {off + 4, off + 10}
                        \cup (IF Byte(off + 10) = 0 THEN {off + 11} ELSE {}),
              out |-> << Finding("INFO", "Compatible ID Feature", off, "",
                                 <<wLength>> \o Printf8s(off + 4, 8)
                                 \o <<0>> \o Printf8s(off + 12, 8)) >> \o w,
              errors |-> 0,
              warnings |-> Len(w)]

\* lines 419-431 and 461-472: the rendering loop over 16-bit code units,
\* for (i = 0; i < n; i += 2) if (base + i + slack < length) { ... }
RECURSIVE RenderLoop(_, _, _, _)
RenderLoop(base, i, n, slack) ==
    IF ~(i < n) THEN [text |-> <<>>, chars |-> 0, reads |-> {}]
    ELSE IF base + i + slack < length
    THEN LET c == Byte(base + i)
         IN  IF c >= 32 /\ c <= 126
             THEN LET r == RenderLoop(base, i + 2, n, slack)
                  IN  [text |-> <<c>> \o r.text, chars |-> r.chars + 1,
                       reads |-> {base + i} \cup r.reads]
             ELSE IF c = 0
             THEN [text |-> <<>>, chars |-> 0, reads |-> {base + i}]
             ELSE LET r == RenderLoop(base, i + 2, n, slack)
                  IN  [text |-> <<63>> \o r.text, chars |-> r.chars,
                       reads |-> {base + i} \cup r.reads]
    ELSE RenderLoop(base, i + 2, n, slack)

RegPropExpectedTotal_no_length_field(nameLen, dataLen) == 8 + nameLen + dataLen

\* line 449: expected_total
RegPropExpectedTotal(nameLen, dataLen) == 8 + nameLen + 2 + dataLen

RegPropLengthFieldBeyond_off_by_two(data_offset) == data_offset > length

\* line 441: the 2-byte data length field does not fit the buffer
RegPropLengthFieldBeyond(data_offset) == data_offset + 2 > length

RegPropDataBeyond_off_by_one(data_offset, dataLen) ==
    data_offset + 2 + dataLen >= length

\* line 456: the data does not fit the buffer
RegPropDataBeyond(data_offset, dataLen) == data_offset + 2 + dataLen > length

\* lines 439-475: the data length field and the data behind the name
RegPropData(off, wLength, wPropertyNameLength) ==
    LET data_offset == off + 8 + wPropertyNameLength
    IN  IF RegPropLengthFieldBeyond(data_offset)
        THEN ErrorOnly("Property data length field beyond descriptor", off)
        ELSE LET wPropertyDataLength == LE16(data_offset)
                 expected_total ==
                     RegPropExpectedTotal(wPropertyNameLength, wPropertyDataLength)
                 mismatch == ErrIf(expected_total # wLength, "Length mismatch", off)
                 beyond == RegPropDataBeyond(data_offset, wPropertyDataLength)
                 r == RenderLoop(data_offset + 2, 0, wPropertyDataLength - 2, 0)
                 shown == ~beyond /\ wPropertyDataLength > 0
             IN  [reads |-> {data_offset, data_offset + 1}
                            \cup (IF shown THEN r.reads ELSE {}),
                  out |-> << Finding("INFO", "Property Data Length", off, "",
                                     <<wPropertyDataLength>>) >>
                          \o mismatch
                          \o ErrIf(beyond,
                                   "Property data extends beyond descriptor", off)
                          \o (IF shown
                              THEN << Finding("INFO", "Property Data", off, "",
                                              r.text) >>
                              ELSE <<>>),
                  errors |-> Len(mismatch) + (IF beyond THEN 1 ELSE 0),
                  warnings |-> 0]

\* lines 392-479
RegistryPropertyFeature(off, wLength) ==
    IF wLength < 8
    THEN ErrorOnly("Registry Property Feature too short", off)
    ELSE LET wPropertyDataType == LE16(off + 4)
             wPropertyNameLength == LE16(off + 6)
             head == << Finding("INFO", "Registry Property Feature", off, "",
                                <<wLength, wPropertyDataType,
                                  wPropertyNameLength>>) >>
                     \o WarnIf(wPropertyDataType # 1 /\ wPropertyDataType # 7,
                               "Unusual property data type", off)
             headWarnings == Len(head) - 1
         IN  IF wPropertyNameLength = 0 \/ wPropertyNameLength % 2 # 0
             THEN [reads |-> (off + 4)..(off + 7),
                   out |-> head \o ErrIf(TRUE, "Invalid property name length", off),
                   errors |-> 1,
                   warnings |-> headWarnings]
             ELSE IF off + 8 + wPropertyNameLength > length
             THEN [reads |-> (off + 4)..(off + 7),
                   out |-> head \o ErrIf(TRUE,
                               "Property name extends beyond descriptor", off),
                   errors |-> 1,
                   warnings |-> headWarnings]
             ELSE LET name == RenderLoop(off + 8, 0, wPropertyNameLength - 2, 1)
                      empty == WarnIf(name.chars = 0, "Empty property name", off)
                      d == RegPropData(off, wLength, wPropertyNameLength)
                  IN  [reads |-> ((off + 4)..(off + 7)) \cup name.reads
                                 \cup d.reads,
                       out |-> head
                               \o << Finding("INFO", "Property Name", off, "",
                                             name.text) >>
                               \o empty \o d.out,
                       errors |-> d.errors,
                       warnings |-> headWarnings + Len(empty)]

UnknownDescriptorType_uncounted(off, wLength, wDescriptorType) ==
    [reads |-> {},
     out |-> << Finding("ERROR", "Unknown Descriptor Type", off, "",
                        <<wDescriptorType, wLength>>) >>,
     errors |-> 0, warnings |-> 0]

\* lines 480-483: the default branch of the switch
UnknownDescriptorType(off, wLength, wDescriptorType) ==
    [reads |-> {},
     out |-> << Finding("ERROR", "Unknown Descriptor Type", off, "",
                        <<wDescriptorType, wLength>>) >>,
     errors |-> 1, warnings |-> 0]

\* lines 283-484: the switch on wDescriptorType
MsosDispatch(off, wLength, wDescriptorType) ==
    CASE wDescriptorType = MS_OS_20_SET_HEADER_DESCRIPTOR ->
            SetHeader(off, wLength)
      [] wDescriptorType = MS_OS_20_SUBSET_HEADER_CONFIGURATION ->
            ConfigurationSubsetHeader(off, wLength)
      [] wDescriptorType = MS_OS_20_SUBSET_HEADER_FUNCTION ->
            FunctionSubsetHeader(off, wLength)
      [] wDescriptorType = MS_OS_20_FEATURE_COMPATIBLE_ID ->
            CompatibleIdFeature(off, wLength)
      [] wDescriptorType = MS_OS_20_FEATURE_REG_PROPERTY ->
            RegistryPropertyFeature(off, wLength)
      [] OTHER ->
            UnknownDescriptorType(off, wLength, wDescriptorType)

\* lines 248-487: one iteration of the walk
MsosRecord ==
    /\ pc = "msos_loop"
    /\ offset < length
    /\ IF offset + 4 > length
       THEN /\ out' = Append(out, Finding("ERROR", "Truncated descriptor",
                                          offset, "", <<length - offset>>))
            /\ error_count' = error_count + 1
            /\ pc' = "msos_summary"
            /\ UNCHANGED <<offset, warning_count, reads>>
       ELSE LET wLength == LE16(offset)
                wDescriptorType == LE16(offset + 2)
                bad == MsosLengthError(offset, wLength)
                r == MsosDispatch(offset, wLength, wDescriptorType)
            IN  IF bad # ""
                THEN /\ reads' = reads \cup (offset..(offset + 3))
                     /\ out' = Append(out, Finding("ERROR", bad, offset, "",
                                                   <<wLength>>))
                     /\ error_count' = error_count + 1
                     /\ pc' = "msos_summary"
                     /\ UNCHANGED <<offset, warning_count>>
                ELSE /\ reads' = reads \cup (offset..(offset + 3)) \cup r.reads
                     /\ out' = out \o r.out
                     /\ error_count' = error_count + r.errors
                     /\ warning_count' = warning_count + r.warnings
                     /\ offset' = offset + wLength
                     /\ pc' = "msos_loop"
    /\ UNCHANGED <<webusb_vendor_code, webusb_landing_page_index>>
    /\ UNCHANGED <<data, length, cap_count, uuid_str>>

\* lines 489-499: the summary, after the loop ended or was left by break
MsosSummary ==
    /\ \/ pc = "msos_summary"
       \/ pc = "msos_loop" /\ ~(offset < length)
    /\ out' = Append(out, Finding("SUMMARY",
                 IF error_count = 0 /\ warning_count = 0 THEN "well-formed"
                 ELSE IF error_count = 0 THEN "valid with warnings"
                 ELSE "has errors",
                 offset, "", <<error_count, warning_count>>))
    /\ pc' = "done"
    /\ UNCHANGED <<webusb_vendor_code, webusb_landing_page_index>>
    /\ UNCHANGED <<data, length, offset, cap_count, error_count, warning_count,
                   reads, uuid_str>>

(***************************************************************************)
(* The descriptor sets a device may answer with: up to MaxRecs records,    *)
(* optionally behind a Set Header that states the length of the whole set, *)
(* of which the transfer delivered all but the last 0..MaxMsosTrunc bytes. *)
(***************************************************************************)
RegProp(wLength, dataType, name, rest) ==
    <<wLength, 0, MS_OS_20_FEATURE_REG_PROPERTY, 0, dataType, 0, Len(name), 0>>
    \o name \o rest

MsosMenu ==
    { <<10, 0, 0, 0, 0, 0, 3, 6, 10, 0>>,
      <<10, 0, 0, 0, 0, 0, 0, 10, 10, 0>>,
      <<8, 0, 0, 0, 0, 0, 3, 6>>,
      <<8, 0, 1, 0, 0, 0, 8, 0>>,
      <<8, 0, 1, 0, 0, 1, 200, 0>>,
      <<8, 0, 2, 0, 0, 0, 8, 0>>,
      <<8, 0, 2, 0, 0, 1, 4, 0>>,
      <<20, 0, 3, 0, 87, 73, 78, 85, 83, 66, 0, 0, 0, 0, 0, 0, 0, 0, 0, 0>>,
      <<20, 0, 3, 0, 76, 73, 66, 85, 83, 66, 48, 0, 0, 0, 0, 0, 0, 0, 0, 0>>,
      RegProp(14, 1, <<65, 0, 0, 0>>, <<0, 0>>),
      RegProp(16, 1, <<65, 0, 0, 0>>, <<0, 0, 0, 0>>),
      RegProp(12, 1, <<65, 0, 0, 0>>, <<>>),
      RegProp(14, 1, <<1, 0, 0, 0>>, <<0, 0>>),
      RegProp(8, 1, <<65, 0, 0>>, <<>>),
      RegProp(18, 2, <<65, 0, 0, 0>>, <<4, 0, 66, 0, 0, 0>>),
      RegProp(14, 7, <<65, 0, 0, 0>>, <<200, 0>>),
      <<4, 0, 9, 0>>,
      <<0, 0, 0, 0>>,
      <<2, 0, 0, 0>>,
      <<100, 0, 0, 0>> }

RECURSIVE MsosBodies(_)
MsosBodies(n) ==
    IF n = 0 THEN { <<>> }
    ELSE MsosBodies(n - 1)
         \cup { b \o r : b \in MsosBodies(n - 1), r \in MsosMenu }

MsosBuffers ==
    { SubSeq(b, 1, Len(b) - t) :
        b \in MsosBodies(MaxRecs), t \in 0..MaxMsosTrunc }
    \cup
    { LET len == 10 + Len(b) - t
      IN  SubSeq(<<10, 0, 0, 0, 0, 0, 3, 6, len % 256, len \div 256>> \o b,
                 1, len) :
        b \in MsosBodies(MaxRecs), t \in 0..MaxMsosTrunc }

InitMsos ==
    /\ data \in { b \in MsosBuffers : Len(b) >= 1 }
    /\ length = Len(data)
    /\ pc = "msos_loop"
    /\ offset = 0
    /\ cap_count = 0
    /\ error_count = 0
    /\ warning_count = 0
    /\ out = <<>>
    /\ reads = {}
    /\ uuid_str = ""
    /\ webusb_vendor_code = 0
    /\ webusb_landing_page_index = 0

NextMsos == MsosRecord \/ MsosSummary

SpecMsos == InitMsos /\ [][NextMsos]_vars

(***************************************************************************)
(* Claims about parse_msos20_descriptor, under SpecMsos.                   *)
(***************************************************************************)
\* the walk is about to read the 4-byte head of the record at the cursor
AtMsosRecord == pc = "msos_loop" /\ offset < length /\ offset + 4 <= length

\* the findings a step appends
NewFindings == SubSeq(out', Len(out) + 1, Len(out'))

\* the record at the cursor fails one of the three length validations
FailsLengthValidation ==
    \/ LE16(offset) = 0
    \/ LE16(offset) < 4
    \/ offset + LE16(offset) > length

\* C6: a record failing a length validation adds exactly one error and halts
\* the walk: nothing behind it is read, reported or counted, whatever bytes
\* follow.
C6_LengthErrorHaltsWalk ==
    [][ /\ (AtMsosRecord /\ FailsLengthValidation)
           => /\ error_count' = error_count + 1
              /\ warning_count' = warning_count
              /\ Len(NewFindings) = 1
              /\ NewFindings[1].sev = "ERROR" /\ NewFindings[1].at = offset
              /\ reads' = reads \cup (offset..(offset + 3))
              /\ offset' = offset
              /\ pc' = "msos_summary"
        /\ (pc = "msos_summary")
           => /\ error_count' = error_count
              /\ warning_count' = warning_count
              /\ reads' = reads
              /\ Len(NewFindings) = 1 /\ NewFindings[1].sev = "SUMMARY"
              /\ pc' = "done" ]_vars

\* a wLength at offset 0 that exceeds the buffer stopped the walk, and a
\* well-formed Set Header lies behind the failed 4-byte head
C6_Witness ==
    /\ pc = "done" /\ offset = 0 /\ error_count = 1 /\ warning_count = 0
    /\ LE16(0) > length /\ length >= 14
    /\ SubSeq(data, 5, 14) = <<10, 0, 0, 0, 0, 0, 3, 6, 10, 0>>
    /\ Len(out) = 2 /\ reads = 0..3

\* the record at the cursor is a Registry-Property record that carries
\* propertyNameLength 4, the name 'A' and a null code unit, and
\* propertyDataLength 0
RegPropNamedA ==
    /\ AtMsosRecord /\ ~FailsLengthValidation
    /\ LE16(offset + 2) = MS_OS_20_FEATURE_REG_PROPERTY
    /\ LE16(offset) >= 8
    /\ offset + 14 <= length
    /\ SubSeq(data, offset + 7, offset + 14) = <<4, 0, 65, 0, 0, 0, 0, 0>>

HasFinding(fs, sev, msg) ==
    \E k \in 1..Len(fs) : fs[k].sev = sev /\ fs[k].msg = msg

FindingRaw(fs, msg) ==
    LET k == CHOOSE k \in 1..Len(fs) : fs[k].msg = msg IN fs[k].raw

\* C7: for that record the rendered name is "A", the reported data length
\* is 0, and the length-mismatch error is added iff wLength # 14.
C7_RegPropNameA ==
    [][ RegPropNamedA
        => /\ HasFinding(NewFindings, "INFO", "Property Name")
           /\ FindingRaw(NewFindings, "Property Name") = <<65>>
           /\ HasFinding(NewFindings, "INFO", "Property Data Length")
           /\ FindingRaw(NewFindings, "Property Data Length") = <<0>>
           /\ HasFinding(NewFindings, "ERROR", "Length mismatch")
                <=> LE16(offset) # 14
           /\ error_count' - error_count
                = (IF LE16(offset) # 14 THEN 1 ELSE 0) ]_vars

\* both cases happened in one decode: a record with wLength 14 and no
\* error, then a record with another wLength and the mismatch error
C7_Witness ==
    /\ pc = "done" /\ error_count = 1 /\ length = 30 /\ offset = length
    /\ SubSeq(data, 1, 14) = <<14, 0, 4, 0, 1, 0, 4, 0, 65, 0, 0, 0, 0, 0>>
    /\ SubSeq(data, 15, 28) = <<16, 0, 4, 0, 1, 0, 4, 0, 65, 0, 0, 0, 0, 0>>
    /\ HasFinding(out, "ERROR", "Length mismatch")
    /\ Len(SelectSeq(out, LAMBDA f : f.msg = "Property Name"
                                      /\ f.raw = <<65>>)) = 2

\* the record at the cursor is a Set Header with wLength >= 10
SetHeaderAtCursor ==
    /\ AtMsosRecord /\ ~FailsLengthValidation
    /\ LE16(offset + 2) = MS_OS_20_SET_HEADER_DESCRIPTOR
    /\ LE16(offset) >= 10

SetHeaderIsWin81 ==
    SubSeq(data, offset + 5, offset + 8) = <<0, 0, 3, 6>>

Count(cond) == IF cond THEN 1 ELSE 0

\* the buffer is one Set Header: wLength 10, windowsVersion 0x06030000,
\* totalLength == length
SoleSetHeader ==
    data = <<10, 0, 0, 0, 0, 0, 3, 6, 10, 0>> /\ length = 10

\* C8: the buffer that is one well-formed Set Header decodes with zero
\* errors and zero warnings; a Set Header with wLength >= 10 adds no error
\* and one warning for each of: totalLength # length, offset # 0,
\* windowsVersion # 0x06030000.
C8_SetHeaderWarnings ==
    /\ [](SoleSetHeader => error_count = 0 /\ warning_count = 0)
    /\ [][ SetHeaderAtCursor
           => /\ error_count' = error_count
              /\ warning_count' = warning_count
                   + Count(LE16(offset + 8) # length)
                   + Count(offset # 0)
                   + Count(~SetHeaderIsWin81)
              /\ Len(Errors(NewFindings)) = 0
              /\ Len(Warnings(NewFindings)) = warning_count' - warning_count
       ]_vars

\* a decode that met a clean first Set Header and then a misplaced one with
\* another Windows version and a wrong total length (three warnings)
C8_Witness ==
    /\ pc = "done" /\ length = 20 /\ offset = 20
    /\ SubSeq(data, 1, 10) = <<10, 0, 0, 0, 0, 0, 3, 6, 20, 0>>
    /\ SubSeq(data, 11, 20) = <<10, 0, 0, 0, 0, 0, 0, 10, 10, 0>>
    /\ error_count = 0 /\ warning_count = 3

C8_WitnessSole ==
    SoleSetHeader /\ pc = "done" /\ error_count = 0 /\ warning_count = 0

\* C11: during an MS OS 2.0 decode every byte index read lies in
\* [0, length), for every record type: the 4-byte head, the header fields,
\* the Compatible-ID fields and the Registry-Property name, data length
\* and data.
C11_MsosReadsInsideLength ==
    \A i \in reads : 0 <= i /\ i < length

\* a decode that read a Compatible-ID record and then the name, the data
\* length and the data of a Registry-Property record that ends the buffer
C11_Witness ==
    /\ pc = "done" /\ length = 38 /\ offset = length
    /\ SubSeq(data, 1, 4) = <<20, 0, 3, 0>>
    /\ SubSeq(data, 21, 24) = <<18, 0, 4, 0>>
    /\ HasFinding(out, "INFO", "Property Data")
    /\ {4, 10, 11, 12, 28, 32, 33, 34} \subseteq reads

\* the guards of BosHeader, BosCapability and BosSummary: past its guard
\* each of them defines a next state
BosCanStep ==
    \/ pc = "bos_start"
    \/ pc = "bos_loop" /\ BosLoopCond
    \/ pc = "bos_summary" \/ (pc = "bos_loop" /\ ~BosLoopCond)

\* what is left of a BOS decode: the capabilities the counter still allows,
\* then the summary
BosStepsLeft ==
    CASE pc = "bos_start" -> Byte(4) + 3
      [] pc = "bos_loop" -> (Byte(4) - cap_count) + 2
      [] pc = "bos_summary" -> 1
      [] OTHER -> 0

\* C12: the capability walk terminates on every input after at most
\* numDeviceCaps (<= 255) iterations: every iteration stops the walk or
\* increments the consumed-capability counter, a zero-length capability
\* leaves the cursor where it is and still counts, and the counter never
\* exceeds numDeviceCaps.  Termination is stated by a measure: every step
\* lowers BosStepsLeft, which never drops below 0, and a step is possible
\* until the decoder has returned.
C12_BosWalkTerminates ==
    [][ /\ cap_count' <= Byte(4) /\ Byte(4) <= 255
        /\ (pc = "bos_loop")
             => (pc' # "bos_loop" \/ cap_count' = cap_count + 1)
        /\ (AtBosRecord /\ Byte(offset) = 0)
             => (offset' = offset /\ cap_count' = cap_count + 1)
        /\ BosStepsLeft' < BosStepsLeft /\ BosStepsLeft' >= 0
        /\ (pc = "done" \/ BosCanStep)' ]_vars

\* a walk that stayed on a zero-length capability until the counter ended it
C12_Witness ==
    /\ pc = "done" /\ offset >= 5 /\ offset < length /\ ~BosTruncated(offset)
    /\ Byte(offset) = 0
    /\ cap_count = 2 /\ Byte(4) = 2

\* the guards of MsosRecord and MsosSummary: past its guard each of them
\* defines a next state
MsosCanStep ==
    \/ pc = "msos_loop" /\ offset < length
    \/ pc = "msos_summary" \/ (pc = "msos_loop" /\ ~(offset < length))

\* what is left of an MS OS 2.0 decode: the bytes behind the cursor, then
\* the summary
MsosStepsLeft ==
    CASE pc = "msos_loop" -> (length - offset) + 2
      [] pc = "msos_summary" -> 1
      [] OTHER -> 0

\* C13: the MS OS 2.0 walk terminates on every input and its cursor never
\* exceeds the buffer length: every iteration halts the walk with an error or
\* advances the cursor by a wLength with 4 <= wLength <= length - offset, in
\* the unknown-type branch too, and a walk that ends without a halting error
\* ends with offset == length.  Termination is stated by a measure: every
\* step lowers MsosStepsLeft, which never drops below 0, and a step is
\* possible until the decoder has returned.
C13_MsosWalkTerminates ==
    [][ /\ offset <= length /\ offset' <= length
        /\ (pc = "msos_loop" /\ offset < length)
             => \/ /\ pc' = "msos_summary"
                   /\ offset' = offset
                   /\ error_count' = error_count + 1
                \/ /\ pc' = "msos_loop"
                   /\ offset' = offset + LE16(offset)
                   /\ 4 <= LE16(offset)
                   /\ LE16(offset) <= length - offset
        /\ (pc = "msos_loop" /\ pc' = "done") => offset = length
        /\ MsosStepsLeft' < MsosStepsLeft /\ MsosStepsLeft' >= 0
        /\ (pc = "done" \/ MsosCanStep)' ]_vars

\* a walk over an unknown record and a Set Header that ended, without a
\* halting error, exactly at the end of the buffer
C13_Witness ==
    /\ pc = "done" /\ length = 14 /\ offset = length
    /\ SubSeq(data, 1, 4) = <<4, 0, 9, 0>>
    /\ error_count = 1
    /\ HasFinding(out, "INFO", "Set Header")

\* the record at the cursor passed the length validations and its
\* wDescriptorType is none of 0x00..0x04
UnknownRecordAtCursor ==
    /\ AtMsosRecord /\ ~FailsLengthValidation
    /\ LE16(offset + 2) > MS_OS_20_FEATURE_REG_PROPERTY

\* what the decoder adds for the record at off, by itself
RecordFindings(off) == MsosDispatch(off, LE16(off), LE16(off + 2))

\* C14: an unknown wDescriptorType adds exactly one error and does not stop
\* the walk: the cursor moves to offset + wLength, where the next record is
\* decoded and counted as it would be behind a valid record.
C14_UnknownTypeDoesNotStop ==
    [][ /\ UnknownRecordAtCursor
           => /\ error_count' = error_count + 1
              /\ warning_count' = warning_count
              /\ Len(NewFindings) = 1
              /\ NewFindings[1].sev = "ERROR"
              /\ NewFindings[1].msg = "Unknown Descriptor Type"
              /\ offset' = offset + LE16(offset)
              /\ pc' = "msos_loop"
        /\ (AtMsosRecord /\ ~FailsLengthValidation
              /\ HasFinding(out, "ERROR", "Unknown Descriptor Type"))
           => /\ NewFindings = RecordFindings(offset).out
              /\ error_count' = error_count + RecordFindings(offset).errors
              /\ warning_count' = warning_count + RecordFindings(offset).warnings
              /\ offset' = offset + LE16(offset) ]_vars

\* an unknown record at offset 0, and behind it a Registry-Property record
\* that was decoded at offset 4
C14_Witness ==
    /\ pc = "done" /\ length = 18 /\ offset = length
    /\ SubSeq(data, 1, 4) = <<4, 0, 9, 0>>
    /\ error_count = 1
    /\ \E k \in 1..Len(out) :
          out[k].msg = "Property Name" /\ out[k].at = 4 /\ out[k].raw = <<65>>

\* the record at the cursor is a Registry-Property record whose name length
\* is non-zero and even and whose name lies inside the buffer
RegPropWithValidName ==
    /\ AtMsosRecord /\ ~FailsLengthValidation
    /\ LE16(offset + 2) = MS_OS_20_FEATURE_REG_PROPERTY
    /\ LE16(offset) >= 8
    /\ LE16(offset + 6) # 0 /\ LE16(offset + 6) % 2 = 0
    /\ offset + 8 + LE16(offset + 6) <= length

\* C15: for such a record the empty-name warning is added when and only
\* when the rendered name is empty, that is when neither a printable
\* character nor a '?' substitute was rendered.
C15_EmptyNameWarningIffNoCharacter ==
    [][ RegPropWithValidName
        => (HasFinding(NewFindings, "WARNING", "Empty property name")
              <=> FindingRaw(NewFindings, "Property Name") = <<>>) ]_vars

\* C16: for a Registry-Property record that passed the walk's length
\* validations, 'property data extends beyond' is added only together with
\* the length-mismatch error; whenever 8 + propertyNameLength + 2 +
\* propertyDataLength == wLength, the name, the data length field and the
\* data lie inside [offset, offset + wLength), are read only there, and
\* neither of the two errors is added.
C16_DataBeyondOnlyWithMismatch ==
    [][ (/\ AtMsosRecord /\ ~FailsLengthValidation
         /\ LE16(offset + 2) = MS_OS_20_FEATURE_REG_PROPERTY)
        => LET wLength == LE16(offset)
               nameLen == LE16(offset + 6)
               dataLen == LE16(offset + 8 + nameLen)
           IN  /\ HasFinding(NewFindings, "ERROR",
                             "Property data extends beyond descriptor")
                    => HasFinding(NewFindings, "ERROR", "Length mismatch")
               /\ (wLength >= 8 /\ 8 + nameLen + 2 + dataLen = wLength)
                    => /\ offset + 8 + nameLen + 2 + dataLen <= offset + wLength
                       /\ offset + wLength <= length
                       /\ (reads' \ reads) \subseteq offset..(offset + wLength - 1)
                       /\ ~HasFinding(NewFindings, "ERROR",
                              "Property data extends beyond descriptor")
                       /\ ~HasFinding(NewFindings, "ERROR", "Length mismatch")
      ]_vars

\* both cases in one decode: a record whose lengths add up to its wLength 18
\* and whose data was rendered, then a record whose data length 200 runs
\* past the buffer and got both errors
C16_Witness ==
    /\ pc = "done" /\ length = 32 /\ offset = length
    /\ SubSeq(data, 1, 4) = <<18, 0, 4, 0>>
    /\ SubSeq(data, 19, 22) = <<14, 0, 4, 0>>
    /\ error_count = 2
    /\ Len(SelectSeq(out, LAMBDA f : f.msg = "Length mismatch")) = 1
    /\ \E k \in 1..Len(out) :
          /\ out[k].msg = "Property data extends beyond descriptor"
          /\ out[k].at = 18
    /\ \E k \in 1..Len(out) : out[k].msg = "Property Data" /\ out[k].at = 0

\* the (vendorCode, landingPage) pair of the first WebUSB payload the BOS
\* decoder reported, (0, 0) when it reported none
DecodedWebUsbPair ==
    LET w == SelectSeq(out, LAMBDA f : f.msg = "WebUSB Data")
    IN  IF w = <<>> THEN <<0, 0>> ELSE <<w[1].raw[2], w[1].raw[3]>>

\* C17: after main's scan of a BOS buffer, the pair used for the URL request
\* equals the pair of the first WebUSB payload the BOS decoder decoded from
\* the same buffer, (0, 0) when it decoded none, and the URL is requested
\* only when both values are non-zero.
C17_TransportPairMatchesDecoder ==
    pc \in {"fetch_webusb_url", "skip_webusb_url"}
    => /\ <<webusb_vendor_code, webusb_landing_page_index>> = DecodedWebUsbPair
       /\ pc = "fetch_webusb_url"
            => webusb_vendor_code # 0 /\ webusb_landing_page_index # 0

====
